---- MODULE Spec2Model ----
(***************************************************************************)
(* Model of the artifact cache (app/core/cache.py), the recompute/publish  *)
(* worker (app/services/worker.py) with its two trigger sources            *)
(* (app/services/scheduler.py, backend/api.py) and the parlay engine       *)
(* (app/core/parlay.py).                                                   *)
(*                                                                         *)
(* File names are sequences of one-character strings, compared by code     *)
(* point as Python compares str / Path.  The outputs directory is the      *)
(* function fs from the names that exist to their directory entries.       *)
(***************************************************************************)
EXTENDS Integers, Sequences, FiniteSets, TLC

VARIABLES fs, clock, cycles, pc, latest, off, dst, orphan, result, before, produced,
          published, saved, found, query, request, response, combos

wvars == <<pc, latest, off, dst, orphan, result, before, produced, published>>
cvars == <<saved, found, query>>
pvars == <<request, response, combos>>
vars == <<fs, clock, cycles, wvars, cvars, pvars>>

(* ------------------------------ bounds --------------------------------- *)
MaxCycles == 2       \* recompute cycles triggered in one run
MaxOnDemand == 1     \* concurrent /api/refresh_projections background tasks
MaxClock == 10       \* last second the wall clock reaches
ChunkCount == 1      \* chunks in the content of a generated artifact
TsWidth == 2         \* digits of a formatted timestamp
MaxFiles == 3        \* files the cache directory holds at most
MaxSelections == 3   \* selections in one request
MaxLegs == 3         \* greatest max_legs of a request
MaxTopK == 3         \* greatest magnitude of top_k in a request

(* --------------------------- characters, names ------------------------- *)
Ord(c) ==
  CASE c = "*" -> 42 [] c = "." -> 46
    [] c = "0" -> 48 [] c = "1" -> 49 [] c = "2" -> 50 [] c = "3" -> 51
    [] c = "4" -> 52 [] c = "5" -> 53 [] c = "6" -> 54 [] c = "7" -> 55
    [] c = "8" -> 56 [] c = "9" -> 57 [] c = "_" -> 95
    [] c = "a" -> 97 [] c = "c" -> 99 [] c = "e" -> 101 [] c = "i" -> 105
    [] c = "j" -> 106 [] c = "l" -> 108 [] c = "n" -> 110 [] c = "o" -> 111
    [] c = "p" -> 112 [] c = "r" -> 114 [] c = "s" -> 115 [] c = "t" -> 116
    [] c = "v" -> 118 [] c = "x" -> 120 [] c = "y" -> 121 [] c = "z" -> 122

\* a < b for two str (or two Path of one directory), from position i on
RECURSIVE LexLessFrom(_, _, _)
LexLessFrom(a, b, i) ==
  IF i > Len(b) THEN FALSE
  ELSE IF i > Len(a) THEN TRUE
  ELSE IF a[i] = b[i] THEN LexLessFrom(a, b, i + 1)
  ELSE Ord(a[i]) < Ord(b[i])

LexLess(a, b) == LexLessFrom(a, b, 1)

Digit(d) == CASE d = 0 -> "0" [] d = 1 -> "1" [] d = 2 -> "2" [] d = 3 -> "3"
              [] d = 4 -> "4" [] d = 5 -> "5" [] d = 6 -> "6" [] d = 7 -> "7"
              [] d = 8 -> "8" [] d = 9 -> "9"

RECURSIVE Decimal(_)
Decimal(n) == IF n < 10 THEN <<Digit(n)>> ELSE Decimal(n \div 10) \o <<Digit(n % 10)>>

RECURSIVE ZeroPad(_, _)
ZeroPad(s, w) == IF Len(s) >= w THEN s ELSE ZeroPad(<<"0">> \o s, w)

\* strftime with zero-padded fixed-width fields
strftime(t) == ZeroPad(Decimal(t), TsWidth)

ProjectionsPattern == <<"p","r","o","j","e","c","t","i","o","n","s","_","*",".","c","s","v">>
canonical == <<"p","r","o","j","e","c","t","i","o","n","s","_","l","a","t","e","s","t",".","c","s","v">>
ProjectionsName(t) ==
  <<"p","r","o","j","e","c","t","i","o","n","s","_">> \o strftime(t) \o <<".","c","s","v">>

(* ------------------------------ directory ------------------------------ *)
NoFile == <<>>
Absent == [kind |-> "absent"]
File(d) == [kind |-> "file", data |-> d]
Link(n) == [kind |-> "link", target |-> n]
Lookup(f, n) == IF n \in DOMAIN f THEN f[n] ELSE Absent

Put(f, n, e) == [m \in DOMAIN f \cup {n} |-> IF m = n THEN e ELSE f[m]]
Remove(f, n) == [m \in DOMAIN f \ {n} |-> f[m]]

\* the name of the regular file a path resolves to, following symbolic links
RECURSIVE ResolveN(_, _, _)
ResolveN(f, n, depth) ==
  IF n \notin DOMAIN f THEN NoFile
  ELSE IF f[n].kind = "file" THEN n
  ELSE IF depth = 0 THEN NoFile
  ELSE ResolveN(f, f[n].target, depth - 1)
Resolve(f, n) == ResolveN(f, n, Cardinality(DOMAIN f))

\* what a reader that opens a path and reads it to the end gets
ReadAll(f, n) == IF Resolve(f, n) = NoFile THEN NoFile ELSE <<f[Resolve(f, n)].data>>

RECURSIVE fnmatch(_, _)
fnmatch(n, pat) ==
  IF pat = <<>> THEN n = <<>>
  ELSE IF Head(pat) = "*"
       THEN fnmatch(n, Tail(pat)) \/ (n # <<>> /\ fnmatch(Tail(n), pat))
       ELSE n # <<>> /\ Head(n) = Head(pat) /\ fnmatch(Tail(n), Tail(pat))

glob(f, pat) == {n \in DOMAIN f : fnmatch(n, pat)}

\* the orders in which the directory may list n entries, and the listing of
\* a set of entries in one of these orders; Enumerate lists it in an order
\* that is fixed but arbitrary
Orders(n) == {o \in [1..n -> 1..n] : \A i, j \in 1..n : i # j => o[i] # o[j]}

RECURSIVE Enumerate(_)
Enumerate(S) ==
  IF S = {} THEN <<>>
  ELSE LET n == CHOOSE m \in S : TRUE IN <<n>> \o Enumerate(S \ {n})

RECURSIVE Permuted(_, _, _)
Permuted(e, o, i) == IF i > Len(e) THEN <<>> ELSE <<e[o[i]]>> \o Permuted(e, o, i + 1)

Listing(S, o) == Permuted(Enumerate(S), o, 1)

RECURSIVE Insert(_, _)
Insert(x, s) ==
  IF s = <<>> THEN <<x>>
  ELSE IF LexLess(x, Head(s)) THEN <<x>> \o s
  ELSE <<Head(s)>> \o Insert(x, Tail(s))

RECURSIVE sorted(_)
sorted(s) == IF s = <<>> THEN <<>> ELSE Insert(s[Len(s)], sorted(SubSeq(s, 1, Len(s) - 1)))

(* ------------------------- recompute_projections ----------------------- *)
Interval == 0
Procs == 0..MaxOnDemand

Content(t) == [i \in 1..ChunkCount |-> t]

WriteAt(d, i, c) ==
  [j \in 1..(IF i > Len(d) THEN i ELSE Len(d)) |->
     IF j = i THEN c ELSE IF j <= Len(d) THEN d[j] ELSE 0]

InitDir == fs = << >> /\ clock = 9 /\ cycles = 0

InitWorker ==
  /\ pc = [p \in Procs |-> "idle"]
  /\ latest = [p \in Procs |-> NoFile]
  /\ off = [p \in Procs |-> 0]
  /\ dst = [p \in Procs |-> NoFile]
  /\ orphan = [p \in Procs |-> FALSE]
  /\ result = [p \in Procs |-> "none"]
  /\ before = [p \in Procs |-> Absent]
  /\ produced = [p \in Procs |-> FALSE]
  /\ published = FALSE

NoSave == [name |-> <<>>, path |-> NoFile]

InitCache ==
  /\ saved = NoSave
  /\ found = NoFile
  /\ query = NoFile

NoRequest == [selections |-> <<>>, max_legs |-> 0, top_k |-> 0, called |-> FALSE]
NoResponse == [raised |-> FALSE, selected |-> <<>>, parlay_suggestions |-> <<>>]

InitParlay ==
  /\ request = NoRequest
  /\ response = NoResponse
  /\ combos = <<>>

Init == InitDir /\ InitWorker /\ InitCache /\ InitParlay

Tick ==
  /\ clock < MaxClock
  /\ clock' = clock + 1
  /\ UNCHANGED <<fs, cycles, wvars, cvars, pvars>>

Start(p) ==
  /\ pc[p] = "idle"
  /\ cycles < MaxCycles
  /\ cycles' = cycles + 1
  /\ pc' = [pc EXCEPT ![p] = "gen"]
  /\ result' = [result EXCEPT ![p] = "none"]
  /\ before' = [before EXCEPT ![p] = Lookup(fs, canonical)]
  /\ produced' = [produced EXCEPT ![p] = FALSE]
  /\ UNCHANGED <<fs, clock, latest, off, dst, orphan, published>>

\* the interval job; the scheduler runs at most one instance of a job
IntervalJob == Start(Interval) /\ UNCHANGED <<cvars, pvars>>

\* POST /api/refresh_projections adds a background task
refresh_projections(p) == p # Interval /\ Start(p) /\ UNCHANGED <<cvars, pvars>>

Return(p, r) ==
  /\ pc' = [pc EXCEPT ![p] = "idle"]
  /\ result' = [result EXCEPT ![p] = r]
  /\ latest' = [latest EXCEPT ![p] = NoFile]
  /\ off' = [off EXCEPT ![p] = 0]
  /\ dst' = [dst EXCEPT ![p] = NoFile]
  /\ orphan' = [orphan EXCEPT ![p] = FALSE]
  /\ before' = [before EXCEPT ![p] = Absent]
  /\ produced' = [produced EXCEPT ![p] = FALSE]

\* the generation script: writes zero or one new timestamped artifact, named
\* by the second at which the script took its timestamp
Stamps == 9..MaxClock
Generated(f, t, new) ==
  IF new /\ ProjectionsName(t) \notin DOMAIN f
  THEN Put(f, ProjectionsName(t), File(Content(t)))
  ELSE f

\* subprocess.run(..., check=True): the script runs to its end and may have
\* written its artifact whether or not it then exits with status zero
RunScript(p) ==
  /\ pc[p] = "gen"
  /\ \E new \in BOOLEAN, failed \in BOOLEAN, t \in Stamps :
       /\ fs' = Generated(fs, t, new)
       /\ produced' = [produced EXCEPT ![p] = fs' # fs]
       /\ pc' = [pc EXCEPT ![p] = IF failed THEN "except" ELSE "glob"]
  /\ UNCHANGED <<clock, cycles, latest, off, dst, orphan, result, before, published>>

\* a handler that logs the failure and carries on to the publish step
OnGenerateError_Continue(p) ==
  /\ pc' = [pc EXCEPT ![p] = "glob"]
  /\ UNCHANGED <<result, latest, off, dst, orphan, before, produced>>

OnGenerateError(p) == Return(p, "False")

\* except Exception: log and return False
GenerateFailed(p) ==
  /\ pc[p] = "except"
  /\ OnGenerateError(p)
  /\ UNCHANGED <<fs, clock, cycles, published>>

\* files[0] in place of files[-1]
Last_First(files) == IF files # <<>> THEN files[1] ELSE NoFile

Last(files) == IF files # <<>> THEN files[Len(files)] ELSE NoFile

FindLatest(p) ==
  /\ pc[p] = "glob"
  /\ \E files \in {sorted(Enumerate(glob(fs, ProjectionsPattern)))} :
         IF files # <<>>
         THEN /\ latest' = [latest EXCEPT ![p] = Last(files)]
              /\ pc' = [pc EXCEPT ![p] = "exists"]
              /\ UNCHANGED <<off, dst, orphan, result, before, produced>>
         ELSE Return(p, "True")
  /\ UNCHANGED <<fs, clock, cycles, published>>

Exists(p) ==
  /\ pc[p] = "exists"
  /\ pc' = [pc EXCEPT ![p] = IF Resolve(fs, canonical) # NoFile THEN "unlink" ELSE "is_symlink"]
  /\ UNCHANGED <<fs, clock, cycles, latest, off, dst, orphan, result, before, produced, published>>

IsSymlink(p) ==
  /\ pc[p] = "is_symlink"
  /\ pc' = [pc EXCEPT ![p] = IF Lookup(fs, canonical).kind = "link" THEN "unlink" ELSE "symlink"]
  /\ UNCHANGED <<fs, clock, cycles, latest, off, dst, orphan, result, before, produced, published>>

Unlink(p) ==
  /\ pc[p] = "unlink"
  /\ \E oserror \in BOOLEAN :
       IF canonical \in DOMAIN fs /\ ~oserror
       THEN /\ fs' = Remove(fs, canonical)
            /\ orphan' = [q \in Procs |-> orphan[q] \/ (pc[q] = "copying" /\ dst[q] = canonical)]
            /\ pc' = [pc EXCEPT ![p] = "symlink"]
       ELSE /\ pc' = [pc EXCEPT ![p] = "copy"]
            /\ UNCHANGED <<fs, orphan>>
  /\ UNCHANGED <<clock, cycles, latest, off, dst, result, before, produced, published>>

\* a handler that gives up when the symlink cannot be made: no copy
SymlinkTo_NoFallback(p) ==
  /\ pc[p] = "symlink"
  /\ \E oserror \in BOOLEAN :
       IF canonical \notin DOMAIN fs /\ ~oserror
       THEN /\ fs' = Put(fs, canonical, Link(latest[p]))
            /\ published' = TRUE
            /\ Return(p, "True")
       ELSE /\ Return(p, "True")
            /\ UNCHANGED <<fs, published>>
  /\ UNCHANGED <<clock, cycles>>

SymlinkTo(p) ==
  /\ pc[p] = "symlink"
  /\ \E oserror \in BOOLEAN :
       IF canonical \notin DOMAIN fs /\ ~oserror
       THEN /\ fs' = Put(fs, canonical, Link(latest[p]))
            /\ published' = TRUE
            /\ Return(p, "True")
       ELSE /\ pc' = [pc EXCEPT ![p] = "copy"]
            /\ UNCHANGED <<fs, latest, off, dst, orphan, result, before, produced, published>>
  /\ UNCHANGED <<clock, cycles>>

\* shutil.copy: same-file check, open the source, open and truncate the destination
CopyOpen(p) ==
  /\ pc[p] = "copy"
  /\ \E oserror \in BOOLEAN :
       LET s == Resolve(fs, latest[p])
           d == Resolve(fs, canonical)
           loop == canonical \in DOMAIN fs /\ d = NoFile
           target == IF d = NoFile THEN canonical ELSE d
       IN IF oserror \/ s = NoFile \/ s = d \/ loop
          THEN /\ Return(p, "raised")
               /\ UNCHANGED fs
          ELSE /\ fs' = Put(fs, target, File(<<>>))
               /\ dst' = [dst EXCEPT ![p] = target]
               /\ off' = [off EXCEPT ![p] = 0]
               /\ orphan' = [orphan EXCEPT ![p] = FALSE]
               /\ pc' = [pc EXCEPT ![p] = "copying"]
               /\ UNCHANGED <<latest, result, before, produced>>
  /\ UNCHANGED <<clock, cycles, published>>

CopyChunk(p) ==
  /\ pc[p] = "copying"
  /\ off[p] < Len(fs[latest[p]].data)
  /\ fs' = IF orphan[p] THEN fs
           ELSE [fs EXCEPT ![dst[p]] =
                   File(WriteAt(fs[dst[p]].data, off[p] + 1, fs[latest[p]].data[off[p] + 1]))]
  /\ off' = [off EXCEPT ![p] = off[p] + 1]
  /\ UNCHANGED <<clock, cycles, pc, latest, dst, orphan, result, before, produced, published>>

CopyDone(p) ==
  /\ pc[p] = "copying"
  /\ off[p] >= Len(fs[latest[p]].data)
  /\ published' = TRUE
  /\ Return(p, "True")
  /\ UNCHANGED <<fs, clock, cycles>>

\* shutil.copy fails while it writes (an OSError of read or write)
CopyError(p) ==
  /\ pc[p] = "copying"
  /\ Return(p, "raised")
  /\ UNCHANGED <<fs, clock, cycles, published>>

recompute_projections(p) ==
  /\ \/ RunScript(p)
     \/ GenerateFailed(p)
     \/ FindLatest(p)
     \/ Exists(p)
     \/ IsSymlink(p)
     \/ Unlink(p)
     \/ SymlinkTo(p)
     \/ CopyOpen(p)
     \/ CopyChunk(p)
     \/ CopyDone(p)
     \/ CopyError(p)
  /\ UNCHANGED <<cvars, pvars>>

Next ==
  \/ IntervalJob
  \/ \E p \in Procs : refresh_projections(p)
  \/ \E p \in Procs : recompute_projections(p)

Spec == Init /\ [][Next]_vars

\* the same program when its trigger sources honour the contract of the
\* coordinator: a trigger is delivered only while no recompute is running
NoneRunning == \A q \in Procs : pc[q] = "idle"

NextSeq ==
  \/ NoneRunning /\ IntervalJob
  \/ \E p \in Procs : NoneRunning /\ refresh_projections(p)
  \/ \E p \in Procs : recompute_projections(p)

SpecSeq == Init /\ [][NextSeq]_vars

(* ----------------------------- artifact cache -------------------------- *)
LogicalNames == {<<"x">>, <<"x", "_", "y">>}
NoSuffix == [given |-> FALSE, text |-> <<>>]
Suffix(x) == [given |-> TRUE, text |-> x]
Suffixes == {NoSuffix, Suffix(<<"a">>), Suffix(<<"z">>)}

\* a file name built without the underscore that the patterns expect
Filename_NoUnderscore(name, t, suffix) ==
  IF ~suffix.given
  THEN name \o t \o <<".", "j", "s", "o", "n">>
  ELSE name \o suffix.text \o <<".", "j", "s", "o", "n">>

Filename(name, t, suffix) ==
  IF ~suffix.given
  THEN name \o <<"_">> \o t \o <<".", "j", "s", "o", "n">>
  ELSE name \o <<"_">> \o suffix.text \o <<".", "j", "s", "o", "n">>

\* the pattern "<name>_*.json"
JsonPattern(name) == name \o <<"_", "*", ".", "j", "s", "o", "n">>

\* save_json(name, data, suffix); text stands for json.dumps(data, default=str)
save_json(name, text, suffix) ==
  LET p == Filename(name, strftime(clock), suffix) IN
    /\ p \in DOMAIN fs \/ Cardinality(DOMAIN fs) < MaxFiles
    /\ fs' = Put(fs, p, File(<<text>>))
    /\ saved' = [name |-> name, path |-> p]
    /\ found' = NoFile
    /\ query' = NoFile
    /\ UNCHANGED <<clock, cycles, wvars, pvars>>

\* latest_file(glob_pattern), the directory listing its entries in order o
latest_file(pat, o) ==
  /\ \E files \in {sorted(Listing(glob(fs, pat), o))} :
       found' = Last(files)
  /\ query' = pat
  /\ UNCHANGED <<fs, clock, cycles, wvars, saved, pvars>>

NextCache ==
  \/ Tick
  \/ \E name \in LogicalNames, suffix \in Suffixes : save_json(name, 0, suffix)
  \/ \E name \in LogicalNames :
       \E o \in Orders(Cardinality(glob(fs, JsonPattern(name)))) :
         latest_file(JsonPattern(name), o)

SpecCache == Init /\ [][NextCache]_vars

(* ----------------------------- parlay engine --------------------------- *)
\* Numbers are exact fractions n/d in lowest terms with d > 0.  The requests
\* below use probabilities and prices whose decimals are multiples of 1/4,
\* for which the float arithmetic of the code is exact as well.
None == [tag |-> "none", n |-> 0, d |-> 1]
Raise == [tag |-> "raise", n |-> 0, d |-> 1]

RECURSIVE Gcd(_, _)
Gcd(a, b) == IF b = 0 THEN a ELSE Gcd(b, a % b)

Num(n, d) ==
  LET g == Gcd(IF n < 0 THEN -n ELSE n, d) IN
    [tag |-> "num", n |-> n \div g, d |-> d \div g]

Zero == Num(0, 1)
One == Num(1, 1)
Mul(a, b) == Num(a.n * b.n, a.d * b.d)
Add(a, b) == IF b.tag = "raise" THEN Raise ELSE Num(a.n * b.d + b.n * a.d, a.d * b.d)
Sub(a, b) == Num(a.n * b.d - b.n * a.d, a.d * b.d)
Neg(a) == Num(-a.n, a.d)
Less(a, b) == a.n * b.d < b.n * a.d
\* x / y on floats: ZeroDivisionError when y is zero
Div(x, y) == IF y = 0 THEN Raise ELSE IF y < 0 THEN Num(-x, -y) ELSE Num(x, y)

Truthy(v) == v.tag = "num" /\ v.n # 0
OrZero(v) == IF Truthy(v) THEN v ELSE Zero

NoPrice == [tag |-> "none", v |-> 0, s |-> <<>>]
IntPrice(v) == [tag |-> "int", v |-> v, s |-> <<>>]
StrPrice(s) == [tag |-> "str", v |-> 0, s |-> s]

IsDigit(c) == c \in {"0", "1", "2", "3", "4", "5", "6", "7", "8", "9"}

RECURSIVE DigitsValue(_, _)
DigitsValue(s, acc) ==
  IF s = <<>> THEN acc ELSE DigitsValue(Tail(s), 10 * acc + (Ord(Head(s)) - Ord("0")))

\* int(a): the value, or ok = FALSE where int raises ValueError or TypeError
int(a) ==
  IF a.tag = "int" THEN [ok |-> TRUE, v |-> a.v]
  ELSE IF a.tag = "none" THEN [ok |-> FALSE, v |-> 0]
  ELSE LET signed == a.s # <<>> /\ Head(a.s) \in {"+", "-"}
           body == IF signed THEN Tail(a.s) ELSE a.s
       IN IF body = <<>> \/ \E i \in 1..Len(body) : ~IsDigit(body[i])
          THEN [ok |-> FALSE, v |-> 0]
          ELSE [ok |-> TRUE,
                v |-> IF Head(a.s) = "-" THEN -DigitsValue(body, 0) ELSE DigitsValue(body, 0)]

american_to_decimal(a) ==
  IF ~int(a).ok THEN None
  ELSE IF int(a).v > 0 THEN Add(One, Div(int(a).v, 100))
  ELSE Add(One, Div(100, -int(a).v))

Enriched(s) ==
  LET dec == IF s.market_price.tag # "none" THEN american_to_decimal(s.market_price) ELSE None
      ev == IF Truthy(dec) /\ s.model_prob.tag # "none"
            THEN Sub(Mul(s.model_prob, dec), One) ELSE None
  IN [player |-> s.player, model_prob |-> s.model_prob, market_price |-> s.market_price,
      decimal |-> dec, ev_per_1 |-> ev]

RECURSIVE EnrichAll(_)
EnrichAll(ss) == IF ss = <<>> THEN <<>> ELSE <<Enriched(Head(ss))>> \o EnrichAll(Tail(ss))

\* key (ev_per_1 is None, -(ev_per_1 or 0)) of the selections
SelectedLess(a, b) ==
  \/ a.ev_per_1.tag # "none" /\ b.ev_per_1.tag = "none"
  \/ /\ (a.ev_per_1.tag = "none") = (b.ev_per_1.tag = "none")
     /\ Less(Neg(OrZero(a.ev_per_1)), Neg(OrZero(b.ev_per_1)))

\* sorted() is stable: x, which came after all of s, goes behind its equals
RECURSIVE InsertSelected(_, _)
InsertSelected(x, s) ==
  IF s = <<>> THEN <<x>>
  ELSE IF SelectedLess(x, Head(s)) THEN <<x>> \o s
  ELSE <<Head(s)>> \o InsertSelected(x, Tail(s))

RECURSIVE SortSelected(_)
SortSelected(s) ==
  IF s = <<>> THEN <<>>
  ELSE InsertSelected(s[Len(s)], SortSelected(SubSeq(s, 1, Len(s) - 1)))

RECURSIVE PrependAll(_, _)
PrependAll(x, cs) == IF cs = <<>> THEN <<>> ELSE <<(<<x>> \o Head(cs))>> \o PrependAll(x, Tail(cs))

\* an enumeration that stops one short: it misses the last r elements
RECURSIVE combinations_OffByOne(_, _)
combinations_OffByOne(s, r) ==
  IF r = 0 THEN << <<>> >>
  ELSE IF Len(s) <= r THEN <<>>
  ELSE PrependAll(Head(s), combinations_OffByOne(Tail(s), r - 1))
         \o combinations_OffByOne(Tail(s), r)

\* itertools.combinations(s, r), in its order
RECURSIVE combinations(_, _)
combinations(s, r) ==
  IF r = 0 THEN << <<>> >>
  ELSE IF Len(s) < r THEN <<>>
  ELSE PrependAll(Head(s), combinations(Tail(s), r - 1)) \o combinations(Tail(s), r)

RECURSIVE JointProb(_)
JointProb(combo) ==
  IF combo = <<>> THEN One ELSE Mul(OrZero(Head(combo).model_prob), JointProb(Tail(combo)))

RECURSIVE Payout(_)
Payout(combo) ==
  IF combo = <<>> THEN One
  ELSE Mul(IF Truthy(OrZero(Head(combo).decimal)) THEN OrZero(Head(combo).decimal) ELSE One,
           Payout(Tail(combo)))

RECURSIVE Players(_)
Players(combo) == IF combo = <<>> THEN <<>> ELSE <<Head(combo).player>> \o Players(Tail(combo))

ParlayOf(legs, payout, joint_prob) ==
  [legs |-> legs, implied_payout |-> payout, joint_prob |-> joint_prob,
   ev_per_1 |-> Sub(Mul(joint_prob, payout), One)]

Parlay(combo) == ParlayOf(Players(combo), Payout(combo), JointProb(combo))

RECURSIVE ParlayAll(_)
ParlayAll(cs) == IF cs = <<>> THEN <<>> ELSE <<Parlay(Head(cs))>> \o ParlayAll(Tail(cs))

\* for r in range(1, max_legs + 1), from r on
RECURSIVE Enumerated(_, _, _)
Enumerated(out_sorted, r, max_legs) ==
  IF r > max_legs THEN <<>>
  ELSE ParlayAll(combinations(out_sorted, r)) \o Enumerated(out_sorted, r + 1, max_legs)

\* a ranking whose key lacks the negation: ascending by ev_per_1
RECURSIVE InsertParlay_Ascending(_, _)
InsertParlay_Ascending(x, s) ==
  IF s = <<>> THEN <<x>>
  ELSE IF Less(x.ev_per_1, Head(s).ev_per_1) THEN <<x>> \o s
  ELSE <<Head(s)>> \o InsertParlay_Ascending(x, Tail(s))

RECURSIVE InsertParlay(_, _)
InsertParlay(x, s) ==
  IF s = <<>> THEN <<x>>
  ELSE IF Less(Neg(x.ev_per_1), Neg(Head(s).ev_per_1)) THEN <<x>> \o s
  ELSE <<Head(s)>> \o InsertParlay(x, Tail(s))

RECURSIVE SortParlays(_)
SortParlays(s) ==
  IF s = <<>> THEN <<>>
  ELSE InsertParlay(s[Len(s)], SortParlays(SubSeq(s, 1, Len(s) - 1)))

Min(a, b) == IF a < b THEN a ELSE b
Max(a, b) == IF a < b THEN b ELSE a

\* s[:k]
Slice(s, k) ==
  IF k >= 0 THEN SubSeq(s, 1, Min(k, Len(s))) ELSE SubSeq(s, 1, Max(Len(s) + k, 0))

Raises(out) == \E i \in 1..Len(out) : out[i].decimal.tag = "raise"

Half == Num(1, 2)
Kinds ==
  { [model_prob |-> Half, market_price |-> IntPrice(100)],
    [model_prob |-> Half, market_price |-> IntPrice(-200)],
    [model_prob |-> One, market_price |-> StrPrice(<<"1", "5", "0">>)],
    [model_prob |-> None, market_price |-> IntPrice(100)],
    [model_prob |-> Half, market_price |-> NoPrice],
    [model_prob |-> Half, market_price |-> StrPrice(<<"a", "b", "c">>)],
    [model_prob |-> Half, market_price |-> IntPrice(0)] }

SelectionLists == UNION {[1..n -> Kinds] : n \in 0..MaxSelections}

\* the selections of a request: the i-th one is for player i
RECURSIVE SelectionsFrom(_, _)
SelectionsFrom(kinds, i) ==
  IF i > Len(kinds) THEN <<>>
  ELSE <<[player |-> i, model_prob |-> kinds[i].model_prob,
          market_price |-> kinds[i].market_price]>> \o SelectionsFrom(kinds, i + 1)

Selections(kinds) == SelectionsFrom(kinds, 1)

suggest_parlays(selections, max_legs, top_k) ==
  /\ ~request.called
  /\ request' = [selections |-> selections, max_legs |-> max_legs, top_k |-> top_k,
                 called |-> TRUE]
  /\ IF selections = <<>>
     THEN response' = NoResponse /\ combos' = <<>>
     ELSE \E out \in {EnrichAll(selections)} :
            IF Raises(out)
            THEN /\ response' = [raised |-> TRUE, selected |-> <<>>, parlay_suggestions |-> <<>>]
                 /\ combos' = <<>>
            ELSE \E out_sorted \in {SortSelected(out)} :
                 \E enumerated \in {Enumerated(out_sorted, 1, Min(max_legs, Len(out_sorted)))} :
                 \E combos_sorted \in {SortParlays(enumerated)} :
                   /\ combos' = enumerated
                   /\ response' = [raised |-> FALSE, selected |-> out_sorted,
                                   parlay_suggestions |-> Slice(combos_sorted, top_k)]
  /\ UNCHANGED <<fs, clock, cycles, wvars, cvars>>

\* one request is made in a run
NextParlay ==
  /\ ~request.called
  /\ \E kinds \in SelectionLists, max_legs \in 0..MaxLegs, top_k \in -MaxTopK..MaxTopK :
       \E selections \in {Selections(kinds)} : suggest_parlays(selections, max_legs, top_k)

SpecParlay == Init /\ [][NextParlay]_vars

(* ------------------------ properties of the worker --------------------- *)
Timestamps(f) == {t \in Stamps : ProjectionsName(t) \in DOMAIN f}
Newest(f) == CHOOSE t \in Timestamps(f) : \A u \in Timestamps(f) : u <= t
Running == {p \in Procs : pc[p] # "idle"}
Returns(p, r) == pc[p] # "idle" /\ pc'[p] = "idle" /\ result'[p] = r

\* C1: once the canonical name has been published, a reader that resolves it
\* in any reachable state gets the full content of one generated artifact;
\* the name is never missing, dangling or partially written.
C1_ReaderSeesCompleteArtifact ==
  published => \E t \in Timestamps(fs) : ReadAll(fs, canonical) = <<Content(t)>>

\* C2: when a cycle of a sequence of cycles returns True and a timestamped
\* artifact exists, the canonical name refers to the artifact with the
\* greatest timestamp (as a link to it or as a copy of it), never to itself.
C2_PointerIsNewestArtifact ==
  [][\A p \in Procs :
       Returns(p, "True") /\ Timestamps(fs') # {} =>
         \/ Lookup(fs', canonical) = Link(ProjectionsName(Newest(fs')))
         \/ Lookup(fs', canonical) = File(Content(Newest(fs')))]_vars

\* C3: a cycle whose generation step wrote no new artifact, run after the
\* canonical name has been published, leaves the canonical name referring
\* to the target it had when the cycle was triggered.
C3_EmptyCycleKeepsPointer ==
  [][\A p \in Procs :
       Returns(p, "True") /\ ~produced[p] /\ before[p] # Absent =>
         Lookup(fs', canonical) = before[p]]_vars

\* C4: at most one recompute_projections is running at any time.
C4_AtMostOneRunning == Cardinality(Running) <= 1

\* C5: when the generation step fails, the cycle returns False without
\* raising and is idle again, and no step of it from the script's run to
\* the return changes or removes any existing directory entry or the
\* canonical name.
C5_FailedGenerationPublishesNothing ==
  [][\A p \in Procs :
       /\ pc[p] = "except" /\ pc'[p] # "except" =>
            fs' = fs /\ pc'[p] = "idle" /\ result'[p] = "False"
       /\ pc[p] = "gen" /\ pc'[p] = "except" =>
            /\ \A n \in DOMAIN fs : n \in DOMAIN fs' /\ fs'[n] = fs[n]
            /\ Lookup(fs', canonical) = Lookup(fs, canonical)]_vars

\* a cycle has returned False after a failed generation step while an
\* artifact and a published canonical name exist, and it is idle again
C5_Witness ==
  \E p \in Procs :
    pc[p] = "idle" /\ result[p] = "False" /\ Timestamps(fs) # {} /\ published

\* C6: no step changes the content of, or removes, a timestamped artifact.
C6_ArtifactsImmutable ==
  [][\A n \in DOMAIN fs : n # canonical => n \in DOMAIN fs' /\ fs'[n] = fs[n]]_vars

(* ------------------------- properties of the cache --------------------- *)
Timestamped(name, t) == Filename(name, strftime(t), NoSuffix)

\* C7: latest_file returns None when no file matches the pattern and else a
\* matching name that no matching name exceeds lexicographically, whatever
\* the order of the directory listing; when it is a timestamped artifact, no
\* matching artifact of the same logical name has a later timestamp.
C7_LatestIsGreatest ==
  query # NoFile =>
    /\ glob(fs, query) = {} => found = NoFile
    /\ glob(fs, query) # {} =>
         found \in glob(fs, query) /\ \A m \in glob(fs, query) : ~LexLess(found, m)
    /\ \A name \in LogicalNames : \A t, u \in 0..MaxClock :
         Timestamped(name, t) \in glob(fs, query) /\ found = Timestamped(name, u) => t <= u

\* latest_file has chosen the later of two timestamped artifacts of one name
C7_Witness ==
  \E name \in LogicalNames : \E t, u \in 0..MaxClock :
    /\ t < u /\ query = JsonPattern(name)
    /\ {Timestamped(name, t), Timestamped(name, u)} \subseteq glob(fs, query)
    /\ found = Timestamped(name, u)

SavedThenLatest == query # NoFile /\ saved # NoSave /\ query = JsonPattern(saved.name)

\* C8: save_json(x, data, suffix) followed by latest_file("x_*.json") returns
\* the path that save_json wrote, whatever the directory held before.
C8_SaveThenLatest == SavedThenLatest => found = saved.path

\* C8 (amended): save_json(x, data, suffix) followed by latest_file("x_*.json")
\* returns the path that save_json wrote when no other file matching the
\* pattern has a lexicographically greater name.
C8_SaveThenLatestWhenGreatest ==
  SavedThenLatest /\ (\A m \in glob(fs, query) : ~LexLess(saved.path, m)) =>
    found = saved.path

\* latest_file has returned the path just saved from among several matches
C8_Witness ==
  SavedThenLatest /\ Cardinality(glob(fs, query)) >= 2 /\ found = saved.path

(* ------------------------- properties of the engine -------------------- *)
\* C9: for a non-empty selections list, a zero or negative top_k yields no
\* suggestion, and a top_k >= 0 yields min(top_k, number of enumerated
\* combinations) suggestions.
C9_TopKBoundsSuggestions ==
  request.called /\ request.selections # <<>> /\ ~response.raised =>
    /\ request.top_k <= 0 => Len(response.parlay_suggestions) = 0
    /\ request.top_k >= 0 =>
         Len(response.parlay_suggestions) = Min(request.top_k, Len(combos))

BadPrice(price) == price.tag # "none" /\ (~int(price).ok \/ int(price).v = 0)

\* C10: a request with a market price that is zero or not an integer does
\* not raise, and the selection with that price comes back with decimal and
\* ev_per_1 absent.
C10_BadPriceIsAbsent ==
  request.called =>
    /\ ~response.raised
    /\ \A i \in 1..Len(response.selected) :
         BadPrice(response.selected[i].market_price) =>
           response.selected[i].decimal = None /\ response.selected[i].ev_per_1 = None

RECURSIVE Binomial(_, _)
Binomial(n, r) ==
  IF r = 0 THEN 1 ELSE IF n = 0 THEN 0 ELSE Binomial(n - 1, r - 1) + Binomial(n - 1, r)

RECURSIVE SumBinomial(_, _)
SumBinomial(n, m) == IF m < 1 THEN 0 ELSE Binomial(n, m) + SumBinomial(n, m - 1)

Members(legs) == {legs[i] : i \in 1..Len(legs)}
Returned == request.called /\ request.selections # <<>> /\ ~response.raised

\* C11: a call with n selections and max_legs >= 1 that reaches the
\* enumeration builds, with m = min(max_legs, n), exactly the sum over
\* r = 1..m of C(n, r) combinations: no combination repeats a member, no two
\* combinations have the same members, and their member sets are exactly the
\* subsets of the selections of size 1..m.
C11_EnumeratesAllSubsets ==
  Returned /\ request.max_legs >= 1 =>
    LET n == Len(request.selections)
        m == Min(request.max_legs, n)
    IN /\ Len(combos) = SumBinomial(n, m)
       /\ \A i \in 1..Len(combos) : Cardinality(Members(combos[i].legs)) = Len(combos[i].legs)
       /\ \A i, j \in 1..Len(combos) :
            i # j => Members(combos[i].legs) # Members(combos[j].legs)
       /\ {Members(combos[i].legs) : i \in 1..Len(combos)}
            = {S \in SUBSET (1..n) : Cardinality(S) >= 1 /\ Cardinality(S) <= m}

\* three selections with max_legs = 2 have been enumerated: 3 + 3 combinations
C11_Witness ==
  Returned /\ Len(request.selections) = 3 /\ request.max_legs = 2 /\ Len(combos) = 6

Suggested == {response.parlay_suggestions[i] : i \in 1..Len(response.parlay_suggestions)}
LeftOut == {combos[i] : i \in 1..Len(combos)} \ Suggested

\* C12: the returned parlay_suggestions are in non-increasing order of
\* ev_per_1 and, for top_k >= 0, are min(top_k, number of combinations) of
\* the enumerated combinations, none of those left out having a strictly
\* greater ev_per_1 than one that is returned.
C12_SuggestionsAreTopRanked ==
  Returned =>
    /\ \A i, j \in 1..Len(response.parlay_suggestions) :
         i < j => ~Less(response.parlay_suggestions[i].ev_per_1,
                        response.parlay_suggestions[j].ev_per_1)
    /\ request.top_k >= 0 =>
         /\ Len(response.parlay_suggestions) = Min(request.top_k, Len(combos))
         /\ Cardinality(Suggested) = Len(response.parlay_suggestions)
         /\ Suggested \subseteq {combos[i] : i \in 1..Len(combos)}
         /\ \A c \in LeftOut : \A x \in Suggested : ~Less(x.ev_per_1, c.ev_per_1)

\* a truncated ranking: two suggestions of different ev_per_1 were returned
\* and a combination was left out
C12_Witness ==
  /\ Returned /\ request.top_k >= 2 /\ LeftOut # {}
  /\ Less(response.parlay_suggestions[2].ev_per_1, response.parlay_suggestions[1].ev_per_1)

(* --------------------- properties of the publish step ------------------ *)
\* C13: when removing the old canonical name or creating the symlink fails,
\* the cycle goes on to the copy; when the copy fails, at its start or
\* before it has written the whole source, the cycle ends raising (it does
\* not return True) and touches no file afterwards.
C13_FallbackThenHardFailure ==
  [][\A p \in Procs :
       /\ pc[p] \in {"unlink", "symlink"} /\ pc'[p] # pc[p] /\ fs' = fs =>
            pc'[p] = "copy" /\ result'[p] = "none"
       /\ pc[p] = "copy" /\ pc'[p] = "idle" =>
            result'[p] = "raised" /\ fs' = fs
       /\ pc[p] = "copying" /\ pc'[p] = "idle" /\ off[p] < Len(fs[latest[p]].data) =>
            result'[p] = "raised" /\ fs' = fs]_vars

\* a cycle whose indirection failed and whose copy failed has ended raising
C13_Witness == \E p \in Procs : pc[p] = "idle" /\ result[p] = "raised"

====
